---- MODULE Spec2Model ----
(***************************************************************************)
(* A model of sol2uml's extraction pass: parser.ts (convertNodeToUmlClass, *)
(* parseContractDefinition, addAssociations, parseExpression and the       *)
(* formatters/classifiers) and fileParser.ts (parseUmlClassesFromFiles).   *)
(*                                                                         *)
(* Four specifications share the variables:                                *)
(*   Spec          parseUmlClassesFromFiles / convertNodeToUmlClass, one   *)
(*                 step per top-level child of a source unit;              *)
(*   SpecContract  parseContractDefinition, one step per sub-node;         *)
(*   SpecResolve   addAssociations / parseExpression applied to a node     *)
(*                 list and an entity drawn from bounded sets;             *)
(*   SpecFormat    parseTypeName applied to a type node of bounded depth.  *)
(*                                                                         *)
(* Strings are TLA+ strings (JavaScript's + is \o).  A function that can   *)
(* throw returns [threw |-> BOOLEAN, value |-> ...]: the value is the      *)
(* returned value, or the error message when threw.  JavaScript's null is  *)
(* the node Null.                                                          *)
(***************************************************************************)
EXTENDS Integers, Sequences, FiniteSets, TLC

VARIABLES
    \* SpecFormat: the type node handed to parseTypeName and what came back
    typeName, formatted,
    \* SpecResolve: the node list and expression resolved, the entity, the
    \* number of resolutions done and the entity after the first one
    rNodes, rExpr, rClass, rCalls, rFirst,
    \* SpecContract: the ContractDefinition node, the entity threaded through
    \* parseContractDefinition, the index of the next sub-node, the position
    cNode, cClass, cIdx, cPc,
    \* Spec: the files, the filesystem flag, the loop position of
    \* parseUmlClassesFromFiles and its aggregate; the locals of the running
    \* convertNodeToUmlClass call
    files, filesystem, fileIdx, pc, allUmlClasses,
    childIdx, umlClasses, importedPaths

fmtVars == <<typeName, formatted>>
resVars == <<rNodes, rExpr, rClass, rCalls, rFirst>>
conVars == <<cNode, cClass, cIdx, cPc>>
fileVars == <<files, filesystem, fileIdx, pc, allUmlClasses,
              childIdx, umlClasses, importedPaths>>
vars == <<fmtVars, resVars, conVars, fileVars>>

----------------------------------------------------------------------------
(* Bounds *)

MaxTypeDepth == 2
MaxExprDepth == 1
MaxStmtDepth == 1
MaxNodes == 2
MaxCalls == 2
MaxSubNodes == 2
MaxFiles == 2
MaxChildren == 3

----------------------------------------------------------------------------
(* Results of functions that can throw *)

Return(v) == [threw |-> FALSE, value |-> v]
Throw(msg) == [threw |-> TRUE, value |-> msg]

(* JavaScript null / an absent optional field: of a node or array, and of a *)
(* string                                                                    *)
Null == [type |-> "null"]
NullString == "null"

----------------------------------------------------------------------------
(* Type-name nodes *)

ElementaryTypeName(name) == [type |-> "ElementaryTypeName", name |-> name]
UserDefinedTypeName(namePath) ==
    [type |-> "UserDefinedTypeName", namePath |-> namePath]
ArrayTypeName(base) == [type |-> "ArrayTypeName", baseTypeName |-> base]
Mapping(key, value) ==
    [type |-> "Mapping", keyType |-> key, valueType |-> value]
FunctionTypeName == [type |-> "FunctionTypeName"]
\* a type-node kind the formatter does not know (grammar/version mismatch)
UnknownTypeName == [type |-> "TypeNameOfNewerGrammar"]

ElementaryNames == {"uint256", "address"}
UserTypePaths == {"S", "Lib.Data"}

KeyTypeNames ==
    {ElementaryTypeName(n) : n \in ElementaryNames}
        \cup {UserDefinedTypeName(p) : p \in UserTypePaths}
LeafTypeNames == KeyTypeNames \cup {FunctionTypeName, UnknownTypeName}

RECURSIVE TypeNames(_)
TypeNames(depth) ==
    IF depth = 0 THEN LeafTypeNames
    ELSE LET sub == TypeNames(depth - 1)
         IN  sub \cup {ArrayTypeName(t) : t \in sub}
                 \cup {Mapping(k, v) : k \in KeyTypeNames, v \in sub}

----------------------------------------------------------------------------
(* parseTypeName *)

\* (<ElementaryTypeName>keyType)?.name || (<UserDefinedTypeName>keyType)?.namePath
MappingKey(keyType) ==
    IF keyType.type = "ElementaryTypeName" /\ keyType.name # ""
    THEN keyType.name
    ELSE IF keyType.type = "UserDefinedTypeName"
         THEN keyType.namePath
         ELSE "undefined"

MappingStringNoEscape(key, value) == "mapping(" \o key \o "=>" \o value \o ")"
\* 'mapping\\(' + key + '=\\>' + value + '\\)'
MappingString(key, value) ==
    "mapping\\(" \o key \o "=\\>" \o value \o "\\)"

\* parseTypeName(typeName.baseTypeName) + '[]'
ArrayString(base) == base \o "[]"

RECURSIVE parseTypeName(_)
parseTypeName(t) ==
    CASE t.type = "ElementaryTypeName" -> Return(t.name)
      [] t.type = "UserDefinedTypeName" -> Return(t.namePath)
      [] t.type = "FunctionTypeName" -> Return(t.type \o "\\(\\)")
      [] t.type = "ArrayTypeName" ->
            LET base == parseTypeName(t.baseTypeName)
            IN  IF base.threw THEN base ELSE Return(ArrayString(base.value))
      [] t.type = "Mapping" ->
            LET key == MappingKey(t.keyType)
                value == parseTypeName(t.valueType)
            IN  IF value.threw THEN value
                ELSE Return(MappingString(key, value.value))
      [] OTHER -> Throw("Invalid typeName")

----------------------------------------------------------------------------
(* JavaScript arrays that a callee tests with !nodes / Array.isArray: the    *)
(* array object, or Null                                                     *)

Array(items) == [type |-> "Array", items |-> items]

----------------------------------------------------------------------------
(* umlClass.ts: the entity and its association map *)

Storage == "Storage"
Memory == "Memory"

\* new UmlClass({name, stereotype, absolutePath, relativePath}); associations
\* is the map target name -> record, kept as its entries in insertion order
NewUmlClass(name, stereotype, absolutePath, relativePath) ==
    [name |-> name,
     stereotype |-> stereotype,
     absolutePath |-> absolutePath,
     relativePath |-> relativePath,
     attributes |-> <<>>,
     operators |-> <<>>,
     structs |-> <<>>,
     enums |-> <<>>,
     associations |-> <<>>,
     importedPaths |-> <<>>]

\* an association as the callers build it: realization is absent unless given
Association(referenceType, targetUmlClassName, realization) ==
    [referenceType |-> referenceType,
     targetUmlClassName |-> targetUmlClassName,
     realization |-> realization]

IsPrimitive(name) == name \in ElementaryNames

Targets(umlClass) ==
    {umlClass.associations[i].targetUmlClassName :
        i \in DOMAIN umlClass.associations}

\* every discovery appends a record, merging nothing
addAssociationAppend(umlClass, association) ==
    [umlClass EXCEPT !.associations = Append(@, association)]
\* a later discovery overwrites the record of its target
addAssociationOverwrite(umlClass, association) ==
    IF association.targetUmlClassName \in Targets(umlClass)
    THEN [umlClass EXCEPT !.associations =
            [i \in DOMAIN @ |->
                IF @[i].targetUmlClassName = association.targetUmlClassName
                THEN association ELSE @[i]]]
    ELSE [umlClass EXCEPT !.associations = Append(@, association)]
\* umlClass.addAssociation(association): self and primitive targets are not
\* recorded; a target already recorded keeps its record and referenceType,
\* realization is sticky-true; a new target gets a new record
addAssociation(umlClass, association) ==
    LET target == association.targetUmlClassName
    IN  IF target = umlClass.name \/ IsPrimitive(target)
        THEN umlClass
        ELSE IF target \in Targets(umlClass)
        THEN [umlClass EXCEPT !.associations =
                [i \in DOMAIN @ |->
                    IF @[i].targetUmlClassName = target
                    THEN [@[i] EXCEPT !.realization =
                            @ \/ association.realization]
                    ELSE @[i]]]
        ELSE [umlClass EXCEPT !.associations = Append(@, association)]

----------------------------------------------------------------------------
(* AST nodes the resolver walks *)

VariableDeclaration(name, type, isStateVar, visibility) ==
    [type |-> "VariableDeclaration", name |-> name, typeName |-> type,
     isStateVar |-> isStateVar, visibility |-> visibility]
Identifier(name) == [type |-> "Identifier", name |-> name]
NumberLiteral == [type |-> "NumberLiteral"]
BinaryOperation(left, right) ==
    [type |-> "BinaryOperation", left |-> left, right |-> right]
UnaryOperation(sub) == [type |-> "UnaryOperation", subExpression |-> sub]
FunctionCall(callee, arguments) ==
    [type |-> "FunctionCall", expression |-> callee, arguments |-> arguments]
IndexAccess(base, index) ==
    [type |-> "IndexAccess", base |-> base, index |-> index]
TupleExpression(components) ==
    [type |-> "TupleExpression", components |-> components]
MemberAccess(object, memberName) ==
    [type |-> "MemberAccess", expression |-> object,
     memberName |-> memberName]
Conditional(condition, trueExpression, falseExpression) ==
    [type |-> "Conditional", condition |-> condition,
     trueExpression |-> trueExpression, falseExpression |-> falseExpression]
NewExpression(type) == [type |-> "NewExpression", typeName |-> type]

Block(statements) == [type |-> "Block", statements |-> Array(statements)]
VariableDeclarationStatement(variables, initialValue) ==
    [type |-> "VariableDeclarationStatement",
     variables |-> Array(variables), initialValue |-> initialValue]
StateVariableDeclaration(variables, initialValue) ==
    [type |-> "StateVariableDeclaration",
     variables |-> Array(variables), initialValue |-> initialValue]
ExpressionStatement(expression) ==
    [type |-> "ExpressionStatement", expression |-> expression]
ReturnStatement(expression) ==
    [type |-> "ReturnStatement", expression |-> expression]
ForStatement(conditionExpression, loopExpression, body) ==
    [type |-> "ForStatement", conditionExpression |-> conditionExpression,
     loopExpression |-> ExpressionStatement(loopExpression), body |-> body]
WhileStatement(condition, body) ==
    [type |-> "WhileStatement", condition |-> condition, body |-> body]
DoWhileStatement(condition, body) ==
    [type |-> "DoWhileStatement", condition |-> condition, body |-> body]
IfStatement(condition, trueBody, falseBody) ==
    [type |-> "IfStatement", condition |-> condition, trueBody |-> trueBody,
     falseBody |-> falseBody]
\* a statement kind without a rule
EmitStatement(eventCall) == [type |-> "EmitStatement", eventCall |-> eventCall]

\* 'statements' in node, 'expression' in node
HasStatements(node) == node.type = "Block"
HasExpression(node) ==
    node.type \in {"ExpressionStatement", "ReturnStatement", "FunctionCall",
                   "MemberAccess"}

----------------------------------------------------------------------------
(* parseClassName, addAssociations, parseExpression *)

\* rawClassName.split('.')[0]
parseClassName(rawClassName) ==
    IF rawClassName = "" THEN ""
    ELSE LET dots == {i \in 1..Len(rawClassName) :
                        SubSeq(rawClassName, i, i) = "."}
         IN  IF dots = {} THEN rawClassName
             ELSE SubSeq(rawClassName, 1,
                         (CHOOSE i \in dots : \A j \in dots : i <= j) - 1)

DeclReferenceTypeMemory(node) == Memory
\* node.isStateVar ? ReferenceType.Storage : ReferenceType.Memory
DeclReferenceType(node) == IF node.isStateVar THEN Storage ELSE Memory

RECURSIVE addAssociations(_, _)
RECURSIVE addAssociationsLoop(_, _, _)
RECURSIVE addAssociationsNode(_, _)
RECURSIVE parseExpression(_, _)
RECURSIVE parseExpressions(_, _, _)

\* the guard on the node list, then the for loop
addAssociations(nodes, umlClass) ==
    IF nodes = Null \/ nodes.type # "Array" THEN umlClass
    ELSE addAssociationsLoop(nodes.items, 1, umlClass)

RECURSIVE addAssociationsLoopSkip(_, _, _)
\* a null slot is passed over and the scan goes on
addAssociationsLoopSkip(items, i, umlClass) ==
    IF i > Len(items) THEN umlClass
    ELSE IF items[i] = Null
    THEN addAssociationsLoopSkip(items, i + 1, umlClass)
    ELSE addAssociationsLoopSkip(items, i + 1,
                                 addAssociationsNode(items[i], umlClass))
\* for (const node of nodes): a null slot ends the loop
addAssociationsLoop(items, i, umlClass) ==
    IF i > Len(items) THEN umlClass
    ELSE IF items[i] = Null THEN umlClass
    ELSE addAssociationsLoop(items, i + 1,
                             addAssociationsNode(items[i], umlClass))

\* switch (node.type)
addAssociationsNode(node, umlClass) ==
    CASE node.type = "VariableDeclaration" ->
            IF node.typeName = Null THEN umlClass
            ELSE IF node.typeName.type = "UserDefinedTypeName"
            THEN addAssociation(umlClass,
                    Association(DeclReferenceType(node),
                                parseClassName(node.typeName.namePath),
                                FALSE))
            ELSE IF node.typeName.type = "Mapping"
            THEN addAssociations(Array(<<node.typeName.valueType>>),
                    addAssociations(Array(<<node.typeName.keyType>>),
                                    umlClass))
            ELSE umlClass
      [] node.type = "UserDefinedTypeName" ->
            addAssociation(umlClass,
                Association(Memory, node.namePath, FALSE))
      [] node.type = "Block" -> addAssociations(node.statements, umlClass)
      [] node.type \in {"StateVariableDeclaration",
                        "VariableDeclarationStatement"} ->
            parseExpression(node.initialValue,
                            addAssociations(node.variables, umlClass))
      [] node.type = "ForStatement" ->
            LET body == IF HasStatements(node.body)
                        THEN addAssociations(node.body.statements, umlClass)
                        ELSE umlClass
                cond == parseExpression(node.conditionExpression, body)
            IN  parseExpression(node.loopExpression.expression, cond)
      [] node.type = "WhileStatement" ->
            IF HasStatements(node.body)
            THEN addAssociations(node.body.statements, umlClass)
            ELSE umlClass
      [] node.type = "DoWhileStatement" ->
            LET body == IF HasStatements(node.body)
                        THEN addAssociations(node.body.statements, umlClass)
                        ELSE umlClass
            IN  parseExpression(node.condition, body)
      [] node.type \in {"ReturnStatement", "ExpressionStatement"} ->
            parseExpression(node.expression, umlClass)
      [] node.type = "IfStatement" ->
            LET branch(body, c) ==
                    IF body = Null THEN c
                    ELSE LET s == IF HasStatements(body)
                                  THEN addAssociations(body.statements, c)
                                  ELSE c
                         IN  IF HasExpression(body)
                             THEN parseExpression(body.expression, s)
                             ELSE s
            IN  parseExpression(node.condition,
                    branch(node.falseBody, branch(node.trueBody, umlClass)))
      [] OTHER -> umlClass

parseExpression(expression, umlClass) ==
    CASE expression = Null -> umlClass
      [] expression.type = "BinaryOperation" ->
            parseExpression(expression.right,
                            parseExpression(expression.left, umlClass))
      [] expression.type = "FunctionCall" ->
            parseExpressions(expression.arguments, 1,
                             parseExpression(expression.expression, umlClass))
      [] expression.type = "IndexAccess" ->
            parseExpression(expression.index,
                            parseExpression(expression.base, umlClass))
      [] expression.type = "TupleExpression" ->
            parseExpressions(expression.components, 1, umlClass)
      [] expression.type = "MemberAccess" ->
            parseExpression(expression.expression, umlClass)
      [] expression.type = "Conditional" ->
            addAssociations(Array(<<expression.falseExpression>>),
                addAssociations(Array(<<expression.trueExpression>>),
                                umlClass))
      [] expression.type = "Identifier" ->
            addAssociation(umlClass,
                Association(Memory, expression.name, FALSE))
      [] expression.type = "NewExpression" ->
            addAssociations(Array(<<expression.typeName>>), umlClass)
      [] expression.type = "UnaryOperation"
            /\ expression.subExpression # Null ->
            parseExpression(expression.subExpression, umlClass)
      [] OTHER -> umlClass

\* expressions.forEach((e) => { umlClass = parseExpression(e, umlClass) })
parseExpressions(expressions, i, umlClass) ==
    IF i > Len(expressions) THEN umlClass
    ELSE parseExpressions(expressions, i + 1,
                          parseExpression(expressions[i], umlClass))

----------------------------------------------------------------------------
(* SpecFormat: parseTypeName on every type node of bounded depth *)

\* the value of a variable its specification has not set yet
Idle == [type |-> "idle"]

FmtIdle == typeName = Null /\ formatted = Idle
ResIdle == rNodes = Idle /\ rExpr = Idle /\ rClass = Idle /\ rCalls = 0
           /\ rFirst = Idle
ConIdle == cNode = Null /\ cClass = Idle /\ cIdx = 0 /\ cPc = "idle"
FileIdle == files = <<>> /\ filesystem = FALSE /\ fileIdx = 0 /\ pc = "idle"
            /\ allUmlClasses = <<>> /\ childIdx = 0 /\ umlClasses = <<>>
            /\ importedPaths = <<>>

InitFormat ==
    /\ typeName \in TypeNames(MaxTypeDepth)
    /\ formatted = Idle
    /\ ResIdle /\ ConIdle /\ FileIdle

Format ==
    /\ formatted = Idle
    /\ formatted' = parseTypeName(typeName)
    /\ UNCHANGED <<typeName, resVars, conVars, fileVars>>

NextFormat == Format

SpecFormat == InitFormat /\ [][NextFormat]_vars

----------------------------------------------------------------------------
(* SpecResolve: addAssociations on a node list, or parseExpression on an   *)
(* expression, applied up to MaxCalls times in succession to one entity    *)

\* the entity is named A; B and C are other entities, Lib a library
SelfName == "A"

ExprLeaves ==
    {Identifier("B"), Identifier("C"), Identifier(SelfName), NumberLiteral,
     NewExpression(UserDefinedTypeName("Lib.Data")),
     NewExpression(ElementaryTypeName("uint256"))}
ExprOperands == {Identifier("C"), NumberLiteral}

RECURSIVE Expressions(_)
Expressions(depth) ==
    IF depth = 0 THEN ExprLeaves
    ELSE LET sub == Expressions(depth - 1)
         IN  sub
             \cup {UnaryOperation(e) : e \in sub}
             \cup {MemberAccess(e, "B") : e \in sub}
             \cup {BinaryOperation(e, o) : e \in sub, o \in ExprOperands}
             \cup {IndexAccess(o, e) : e \in sub, o \in ExprOperands}
             \cup {FunctionCall(o, <<e, NumberLiteral>>) :
                        e \in sub, o \in ExprOperands}
             \cup {TupleExpression(<<o, e>>) : e \in sub, o \in ExprOperands}
             \cup {Conditional(o, e, NumberLiteral) :
                        e \in sub, o \in ExprOperands}
             \cup {Conditional(NumberLiteral, o, e) :
                        e \in sub, o \in ExprOperands}

DeclTypeNames ==
    {ElementaryTypeName("uint256"),
     UserDefinedTypeName("B"),
     UserDefinedTypeName("Lib.Data"),
     UserDefinedTypeName(SelfName),
     ArrayTypeName(UserDefinedTypeName("B")),
     Mapping(ElementaryTypeName("address"), UserDefinedTypeName("B")),
     Mapping(UserDefinedTypeName("C"), ElementaryTypeName("uint256")),
     Mapping(ElementaryTypeName("address"),
             Mapping(ElementaryTypeName("address"),
                     UserDefinedTypeName("Lib.Data")))}

Declarations ==
    {VariableDeclaration("v", t, sv, "default") :
        t \in DeclTypeNames \cup {Null}, sv \in BOOLEAN}
LocalDeclarations == {d \in Declarations : ~d.isStateVar /\ d.typeName # Null}

\* var (D x, , Lib.Data z) = C;  the second position is skipped
DestructuringStatement ==
    VariableDeclarationStatement(
        <<VariableDeclaration("x", UserDefinedTypeName("D"), FALSE, "default"),
          Null,
          VariableDeclaration("z", UserDefinedTypeName("Lib.Data"), FALSE,
                              "default")>>,
        Identifier("C"))

SimpleStatements ==
    {ExpressionStatement(e) : e \in ExprLeaves}
        \cup {ReturnStatement(Identifier("B")), ReturnStatement(Null),
              EmitStatement(FunctionCall(Identifier("B"), <<>>))}
        \cup {VariableDeclarationStatement(<<d>>, e) :
                d \in LocalDeclarations, e \in {Null, Identifier("C")}}
        \cup {DestructuringStatement}

StmtConditions == {Identifier("C"), BinaryOperation(Identifier("B"),
                                                    NumberLiteral)}

RECURSIVE Statements(_)
Statements(depth) ==
    IF depth = 0 THEN SimpleStatements
    ELSE LET sub == Statements(depth - 1)
         IN  sub
             \cup {Block(<<s>>) : s \in sub}
             \cup {ForStatement(c, UnaryOperation(Identifier(SelfName)), b) :
                        c \in StmtConditions \cup {Null},
                        b \in {Block(<<s>>) : s \in sub}}
             \cup {WhileStatement(c, Block(<<s>>)) :
                        c \in StmtConditions, s \in sub}
             \cup {WhileStatement(c, s) :
                        c \in StmtConditions, s \in SimpleStatements}
             \cup {DoWhileStatement(c, Block(<<s>>)) :
                        c \in StmtConditions, s \in sub}
             \cup {IfStatement(c, Block(<<s>>), Null) :
                        c \in StmtConditions, s \in sub}
             \cup {IfStatement(Identifier("C"), s,
                               ExpressionStatement(Identifier("B"))) :
                        s \in sub}

ResolveNodes ==
    Declarations
        \cup {UserDefinedTypeName("B"), UserDefinedTypeName("Lib.Data"),
              ElementaryTypeName("address")}
        \cup {StateVariableDeclaration(<<d>>, Identifier("C")) :
                d \in {x \in Declarations : x.isStateVar}}
        \cup Statements(MaxStmtDepth)

\* node lists of at most MaxNodes nodes, a null slot allowed before the last
RECURSIVE NodeSeqs(_)
NodeSeqs(n) ==
    IF n = 0 THEN {<<>>}
    ELSE LET shorter == NodeSeqs(n - 1)
         IN  shorter
             \cup {<<x>> : x \in ResolveNodes}
             \cup {<<h>> \o t : h \in {Null, UserDefinedTypeName("B"),
                                       VariableDeclaration("v",
                                            UserDefinedTypeName("B"),
                                            TRUE, "default"),
                                       DestructuringStatement},
                                t \in shorter \ {<<>>}}
NodeLists == {Array(q) : q \in NodeSeqs(MaxNodes)} \cup {Null}

\* what an entity named A may already hold: a realization comes only from a
\* base contract, which is recorded Storage
InitialRecords(target) ==
    {Association(Storage, target, TRUE), Association(Storage, target, FALSE),
     Association(Memory, target, FALSE)}
InitialAssociations ==
    {<<>>} \cup {<<r>> : r \in InitialRecords("B") \cup InitialRecords("Lib")}
        \cup {<<r, Association(Memory, "C", FALSE)>> : r \in InitialRecords("B")}

InitResolve ==
    /\ \/ rNodes \in NodeLists /\ rExpr = Idle
       \/ rExpr \in Expressions(MaxExprDepth) \cup {Null} /\ rNodes = Idle
    /\ \E a \in InitialAssociations :
            rClass = [NewUmlClass(SelfName, "None", "/cwd/A.sol", "A.sol")
                        EXCEPT !.associations = a]
    /\ rCalls = 0
    /\ rFirst = Idle
    /\ FmtIdle /\ ConIdle /\ FileIdle

CallAddAssociations ==
    /\ rNodes # Idle
    /\ rCalls < MaxCalls
    /\ rClass' = addAssociations(rNodes, rClass)
    /\ rCalls' = rCalls + 1
    /\ rFirst' = IF rCalls = 0 THEN rClass' ELSE rFirst
    /\ UNCHANGED <<rNodes, rExpr, fmtVars, conVars, fileVars>>

CallParseExpression ==
    /\ rExpr # Idle
    /\ rCalls < MaxCalls
    /\ rClass' = parseExpression(rExpr, rClass)
    /\ rCalls' = rCalls + 1
    /\ rFirst' = IF rCalls = 0 THEN rClass' ELSE rFirst
    /\ UNCHANGED <<rNodes, rExpr, fmtVars, conVars, fileVars>>

NextResolve == CallAddAssociations \/ CallParseExpression

SpecResolve == InitResolve /\ [][NextResolve]_vars

----------------------------------------------------------------------------
(* Classifiers and parameter lists *)

parseVisibility(visibility) ==
    CASE visibility = "default" -> Return("Public")
      [] visibility = "public" -> Return("Public")
      [] visibility = "external" -> Return("External")
      [] visibility = "internal" -> Return("Internal")
      [] visibility = "private" -> Return("Private")
      [] OTHER -> Throw("Invalid visibility " \o visibility)

\* an unknown kind classified as an ordinary contract
parseContractKindDefault(kind) ==
    CASE kind = "contract" -> Return("None")
      [] kind = "interface" -> Return("Interface")
      [] kind = "library" -> Return("Library")
      [] kind = "abstract" -> Return("Abstract")
      [] OTHER -> Return("None")
parseContractKind(kind) ==
    CASE kind = "contract" -> Return("None")
      [] kind = "interface" -> Return("Interface")
      [] kind = "library" -> Return("Library")
      [] kind = "abstract" -> Return("Abstract")
      [] OTHER -> Throw("Invalid kind " \o kind)

parsePayable(stateMutability) == stateMutability = "payable"

RECURSIVE parseParametersLoop(_, _, _)
\* for (const param of params) parameters.push({name, type})
parseParametersLoop(items, i, parameters) ==
    IF i > Len(items) THEN Return(parameters)
    ELSE LET type == parseTypeName(items[i].typeName)
         IN  IF type.threw THEN type
             ELSE parseParametersLoop(items, i + 1,
                    Append(parameters,
                           [name |-> items[i].name, type |-> type.value]))

parseParameters(params) ==
    IF params = Null THEN Return(<<>>)
    ELSE parseParametersLoop(params.items, 1, <<>>)

----------------------------------------------------------------------------
(* Contract sub-nodes *)

InheritanceSpecifier(namePath) ==
    [type |-> "InheritanceSpecifier",
     baseName |-> UserDefinedTypeName(namePath)]
UsingForDeclaration(libraryName, type) ==
    [type |-> "UsingForDeclaration", libraryName |-> libraryName,
     typeName |-> type]
FunctionDefinition(name, isConstructor, visibility, stateMutability, parameters, returnParameters, body) ==
    [type |-> "FunctionDefinition", name |-> name,
     isConstructor |-> isConstructor, visibility |-> visibility,
     stateMutability |-> stateMutability, parameters |-> parameters,
     returnParameters |-> returnParameters, body |-> body]
ModifierDefinition(name, parameters, body) ==
    [type |-> "ModifierDefinition", name |-> name,
     parameters |-> parameters, body |-> body]
EventDefinition(name, parameters) ==
    [type |-> "EventDefinition", name |-> name, parameters |-> parameters]
StructDefinition(name, members) ==
    [type |-> "StructDefinition", name |-> name, members |-> Array(members)]
EnumValue(name) == [type |-> "EnumValue", name |-> name]
EnumDefinition(name, members) ==
    [type |-> "EnumDefinition", name |-> name, members |-> Array(members)]
ContractDefinition(name, kind, baseContracts, subNodes) ==
    [type |-> "ContractDefinition", name |-> name, kind |-> kind,
     baseContracts |-> baseContracts, subNodes |-> subNodes]

\* structs[name] = members, enums[name] = values
MapSet(map, key, value) ==
    [k \in DOMAIN map \cup {key} |-> IF k = key THEN value ELSE map[k]]

----------------------------------------------------------------------------
(* parseStructDefinition, parseEnumDefinition, parseContractDefinition *)

RECURSIVE memberAttributes(_, _, _)
\* members.forEach((member) => push({name, type: parseTypeName(...)}))
memberAttributes(items, i, attributes) ==
    IF i > Len(items) THEN Return(attributes)
    ELSE LET type == parseTypeName(items[i].typeName)
         IN  IF type.threw THEN type
             ELSE memberAttributes(items, i + 1,
                    Append(attributes,
                           [name |-> items[i].name, type |-> type.value]))

parseStructDefinition(umlClass, node) ==
    LET attributes == memberAttributes(node.members.items, 1,
                                       umlClass.attributes)
    IN  IF attributes.threw THEN attributes
        ELSE Return(addAssociations(node.members,
                [umlClass EXCEPT !.attributes = attributes.value]))

\* (index++).toString() for the ordinals the model's enums have
OrdinalString(index) ==
    CASE index = 0 -> "0" [] index = 1 -> "1" [] index = 2 -> "2"
      [] index = 3 -> "3" [] OTHER -> "4"

parseEnumDefinition(umlClass, node) ==
    LET items == node.members.items
        attributes ==
            umlClass.attributes \o
                [i \in 1..Len(items) |->
                    [name |-> items[i].name, type |-> OrdinalString(i - 1)]]
    IN  Return(addAssociations(node.members,
                [umlClass EXCEPT !.attributes = attributes]))

BaseContractAssociationPlain(baseClass) ==
    Association(Storage, baseClass.baseName.namePath, FALSE)
\* {referenceType: Storage, targetUmlClassName: baseName.namePath,
\*  realization: true}
BaseContractAssociation(baseClass) ==
    Association(Storage, baseClass.baseName.namePath, TRUE)

RECURSIVE addBaseContracts(_, _, _)
\* node.baseContracts.forEach((baseClass) => umlClass.addAssociation(...))
addBaseContracts(baseContracts, i, umlClass) ==
    IF i > Len(baseContracts) THEN umlClass
    ELSE addBaseContracts(baseContracts, i + 1,
            addAssociation(umlClass,
                           BaseContractAssociation(baseContracts[i])))

\* umlClass.stereotype = parseContractKind(node.kind), then the base contracts
parseContractHeader(umlClass, node) ==
    LET stereotype == parseContractKind(node.kind)
    IN  IF stereotype.threw THEN stereotype
        ELSE Return(addBaseContracts(node.baseContracts, 1,
                [umlClass EXCEPT !.stereotype = stereotype.value]))

RECURSIVE variableAttributes(_, _, _)
\* subNode.variables.forEach((variable) => push({visibility, name, type}))
variableAttributes(items, i, attributes) ==
    IF i > Len(items) THEN Return(attributes)
    ELSE LET visibility == parseVisibility(items[i].visibility)
             type == parseTypeName(items[i].typeName)
         IN  IF visibility.threw THEN visibility
             ELSE IF type.threw THEN type
             ELSE variableAttributes(items, i + 1,
                    Append(attributes,
                           [visibility |-> visibility.value,
                            name |-> items[i].name,
                            type |-> type.value]))

\* payable tested before the body
FunctionStereotypePayableFirst(subNode) ==
    IF subNode.stateMutability = "payable" THEN "Payable"
    ELSE IF subNode.body = Null THEN "Abstract"
    ELSE "None"
\* let stereotype = None; body === null -> Abstract; else payable -> Payable
FunctionStereotype(subNode) ==
    IF subNode.body = Null THEN "Abstract"
    ELSE IF subNode.stateMutability = "payable" THEN "Payable"
    ELSE "None"

\* the operator a function definition appends
FunctionOperator(subNode) ==
    LET parameters == parseParameters(subNode.parameters)
    IN  IF subNode.isConstructor
        THEN IF parameters.threw THEN parameters
             ELSE Return([name |-> "constructor", stereotype |-> "None",
                          parameters |-> parameters.value])
        ELSE IF subNode.name = ""
        THEN IF parameters.threw THEN parameters
             ELSE Return([name |-> "", stereotype |-> "Fallback",
                          parameters |-> parameters.value,
                          isPayable |-> parsePayable(subNode.stateMutability)])
        ELSE LET visibility == parseVisibility(subNode.visibility)
                 returnParameters == parseParameters(subNode.returnParameters)
             IN  IF visibility.threw THEN visibility
                 ELSE IF parameters.threw THEN parameters
                 ELSE IF returnParameters.threw THEN returnParameters
                 ELSE Return([visibility |-> visibility.value,
                              name |-> subNode.name,
                              stereotype |-> FunctionStereotype(subNode),
                              parameters |-> parameters.value,
                              returnParameters |-> returnParameters.value])

ReclassifyAlways(umlClass) == [umlClass EXCEPT !.stereotype = "Abstract"]
\* if (umlClass.stereotype !== Interface) umlClass.stereotype = Abstract
Reclassify(umlClass) ==
    IF umlClass.stereotype # "Interface"
    THEN [umlClass EXCEPT !.stereotype = "Abstract"]
    ELSE umlClass

\* the operator put in front of the others
PushOperatorFirst(umlClass, operator) ==
    [umlClass EXCEPT !.operators = <<operator>> \o @]
\* umlClass.operators.push(operator)
PushOperator(umlClass, operator) ==
    [umlClass EXCEPT !.operators = Append(@, operator)]

\* one iteration of node.subNodes.forEach
parseSubNode(umlClass, subNode) ==
    CASE subNode.type = "StateVariableDeclaration" ->
            LET attributes == variableAttributes(subNode.variables.items, 1,
                                                 umlClass.attributes)
            IN  IF attributes.threw THEN attributes
                ELSE Return(addAssociations(subNode.variables,
                        [umlClass EXCEPT !.attributes = attributes.value]))
      [] subNode.type = "UsingForDeclaration" ->
            Return(addAssociation(umlClass,
                    Association(Memory, subNode.libraryName, FALSE)))
      [] subNode.type = "FunctionDefinition" ->
            LET operator == FunctionOperator(subNode)
            IN  IF operator.threw THEN operator
                ELSE LET pushed == PushOperator(umlClass, operator.value)
                         params == addAssociations(subNode.parameters, pushed)
                         returns ==
                            IF subNode.returnParameters # Null
                            THEN addAssociations(subNode.returnParameters,
                                                 params)
                            ELSE params
                     IN  IF subNode.body = Null
                         THEN Return(Reclassify(returns))
                         ELSE Return(addAssociations(subNode.body.statements,
                                                     returns))
      [] subNode.type = "ModifierDefinition" ->
            LET parameters == parseParameters(subNode.parameters)
            IN  IF parameters.threw THEN parameters
                ELSE LET pushed ==
                            PushOperator(umlClass,
                                [stereotype |-> "Modifier",
                                 name |-> subNode.name,
                                 parameters |-> parameters.value])
                     IN  IF subNode.body # Null
                            /\ subNode.body.statements # Null
                         THEN Return(addAssociations(subNode.body.statements,
                                                     pushed))
                         ELSE Return(pushed)
      [] subNode.type = "EventDefinition" ->
            LET parameters == parseParameters(subNode.parameters)
            IN  IF parameters.threw THEN parameters
                ELSE Return(addAssociations(subNode.parameters,
                        PushOperator(umlClass,
                            [stereotype |-> "Event",
                             name |-> subNode.name,
                             parameters |-> parameters.value])))
      [] subNode.type = "StructDefinition" ->
            LET structMembers == memberAttributes(subNode.members.items, 1,
                                                  <<>>)
            IN  IF structMembers.threw THEN structMembers
                ELSE Return(addAssociations(subNode.members,
                        [umlClass EXCEPT !.structs =
                            MapSet(@, subNode.name, structMembers.value)]))
      [] subNode.type = "EnumDefinition" ->
            Return([umlClass EXCEPT !.enums =
                        MapSet(@, subNode.name,
                               [i \in 1..Len(subNode.members.items) |->
                                    subNode.members.items[i].name])])
      [] OTHER -> Return(umlClass)

RECURSIVE parseSubNodes(_, _, _)
\* node.subNodes.forEach(...)
parseSubNodes(subNodes, i, umlClass) ==
    IF i > Len(subNodes) THEN Return(umlClass)
    ELSE LET next == parseSubNode(umlClass, subNodes[i])
         IN  IF next.threw THEN next
             ELSE parseSubNodes(subNodes, i + 1, next.value)

parseContractDefinition(umlClass, node) ==
    LET header == parseContractHeader(umlClass, node)
    IN  IF header.threw THEN header
        ELSE parseSubNodes(node.subNodes, 1, header.value)

----------------------------------------------------------------------------
(* SpecContract: parseContractDefinition on a contract named A, one step   *)
(* for the header and one per sub-node                                     *)

Param(name, path) ==
    VariableDeclaration(name, UserDefinedTypeName(path), FALSE, NullString)
StateVar(name, type, visibility) ==
    StateVariableDeclaration(
        <<VariableDeclaration(name, type, TRUE, visibility)>>, Null)

\* C public c;
StateVarC == StateVar("c", UserDefinedTypeName("C"), "public")
\* mapping(address => S) m;
StateVarMappingS ==
    StateVar("m", Mapping(ElementaryTypeName("address"),
                          UserDefinedTypeName("S")), "default")
\* function f(D d) public {}
FunctionF ==
    FunctionDefinition("f", FALSE, "public", NullString,
                       Array(<<Param("d", "D")>>), Null, Block(<<>>))
\* function g(B b) external returns (C);
FunctionNoBody ==
    FunctionDefinition("g", FALSE, "external", NullString,
                       Array(<<Param("b", "B")>>),
                       Array(<<Param("", "C")>>), Null)

\* mapping(address => Lib.Data) ld;
StateVarMappingLibData ==
    StateVar("ld", Mapping(ElementaryTypeName("address"),
                           UserDefinedTypeName("Lib.Data")), "default")
\* function h() internal { new Lib.Data(); }
FunctionNew ==
    FunctionDefinition("h", FALSE, "internal", NullString, Array(<<>>), Null,
        Block(<<ExpressionStatement(
                    FunctionCall(NewExpression(UserDefinedTypeName("Lib.Data")),
                                 <<>>))>>))

ContractSubNodes ==
    {StateVarC, StateVarMappingS, FunctionF, FunctionNoBody,
     StateVarMappingLibData, FunctionNew,
     \* B internal b;  uint256 private n;  Lib.Data d;  S s;
     StateVar("b", UserDefinedTypeName("B"), "internal"),
     StateVar("n", ElementaryTypeName("uint256"), "private"),
     StateVar("d", UserDefinedTypeName("Lib.Data"), "default"),
     StateVar("s", UserDefinedTypeName("S"), "default"),
     \* a visibility keyword of a newer grammar
     StateVar("t", UserDefinedTypeName("C"), "transient"),
     \* using Lib for uint256;  using B for Lib.Data;
     UsingForDeclaration("Lib", ElementaryTypeName("uint256")),
     UsingForDeclaration("B", UserDefinedTypeName("Lib.Data")),
     \* constructor(C c) {}
     FunctionDefinition(NullString, TRUE, "default", NullString,
                        Array(<<Param("c", "C")>>), Null, Block(<<>>)),
     \* function() external payable {}   function() external;
     FunctionDefinition("", FALSE, "external", "payable", Array(<<>>), Null,
                        Block(<<>>)),
     FunctionDefinition("", FALSE, "external", NullString, Array(<<>>), Null, Null),
     \* function p(S s) public payable { B; C x = D(s); }
     FunctionDefinition("p", FALSE, "public", "payable",
        Array(<<Param("s", "S")>>), Null,
        Block(<<ExpressionStatement(Identifier("B")),
                VariableDeclarationStatement(<<Param("x", "C")>>,
                    FunctionCall(Identifier("D"), <<Identifier("s")>>))>>)),
     \* function q() internal payable;
     FunctionDefinition("q", FALSE, "internal", "payable", Array(<<>>), Null,
                        Null),
     \* modifier m { C; _; }   modifier n(B b) { _; }
     ModifierDefinition("m", Null,
        Block(<<ExpressionStatement(Identifier("C")),
                ExpressionStatement(Identifier("_"))>>)),
     ModifierDefinition("n", Array(<<Param("b", "B")>>),
        Block(<<ExpressionStatement(Identifier("_"))>>)),
     \* event E(D d);
     EventDefinition("E", Array(<<Param("d", "D")>>)),
     \* struct St { B b; Lib.Data d; }   enum En { X, Y }
     StructDefinition("St", <<Param("b", "B"), Param("d", "Lib.Data")>>),
     EnumDefinition("En", <<EnumValue("X"), EnumValue("Y")>>)}

RECURSIVE SubNodeSeqs(_)
SubNodeSeqs(n) ==
    IF n = 0 THEN {<<>>}
    ELSE LET shorter == SubNodeSeqs(n - 1)
         IN  shorter \cup {Append(q, x) : q \in shorter, x \in ContractSubNodes}

ContractKinds == {"contract", "interface", "library", "abstract", "unknown"}
BaseContractLists ==
    {<<>>, <<InheritanceSpecifier("B")>>,
     <<InheritanceSpecifier("B"), InheritanceSpecifier("C")>>}

ContractNodes ==
    {ContractDefinition(SelfName, k, b, q) :
        k \in ContractKinds, b \in BaseContractLists,
        q \in SubNodeSeqs(MaxSubNodes)}

InitContract ==
    /\ cNode \in ContractNodes
    /\ cClass = NewUmlClass(cNode.name, "undefined", "/cwd/A.sol", "A.sol")
    /\ cIdx = 0
    /\ cPc = "header"
    /\ FmtIdle /\ ResIdle /\ FileIdle

\* parseContractKind and the base contracts
ContractHeader ==
    /\ cPc = "header"
    /\ LET r == parseContractHeader(cClass, cNode)
       IN  IF r.threw
           THEN cClass' = Idle /\ cPc' = "threw"
           ELSE cClass' = r.value /\ cPc' = "subNodes"
    /\ UNCHANGED <<cNode, cIdx, fmtVars, resVars, fileVars>>

\* the next sub-node
ContractSubNode ==
    /\ cPc = "subNodes"
    /\ cIdx < Len(cNode.subNodes)
    /\ LET r == parseSubNode(cClass, cNode.subNodes[cIdx + 1])
       IN  IF r.threw
           THEN cClass' = Idle /\ cPc' = "threw"
           ELSE cClass' = r.value /\ cPc' = "subNodes"
    /\ cIdx' = cIdx + 1
    /\ UNCHANGED <<cNode, fmtVars, resVars, fileVars>>

\* return umlClass
ContractReturn ==
    /\ cPc = "subNodes"
    /\ cIdx = Len(cNode.subNodes)
    /\ cPc' = "returned"
    /\ UNCHANGED <<cNode, cClass, cIdx, fmtVars, resVars, fileVars>>

NextContract == ContractHeader \/ ContractSubNode \/ ContractReturn

SpecContract == InitContract /\ [][NextContract]_vars

----------------------------------------------------------------------------
(* Paths: path.dirname, path.join, path.resolve and require.resolve on the *)
(* paths of the model (relative, '/'-separated, an import written ./name)  *)

Cwd == "/cwd"
\* the files that exist on disk
ExistingFiles == {"/cwd/contracts/B.sol"}

LastSlash(p) ==
    LET slashes == {i \in 1..Len(p) : SubSeq(p, i, i) = "/"}
    IN  IF slashes = {} THEN 0
        ELSE CHOOSE i \in slashes : \A j \in slashes : j <= i

PathDirname(p) == IF LastSlash(p) = 0 THEN "." ELSE SubSeq(p, 1, LastSlash(p) - 1)

\* path.join(folder, p), normalised
PathJoin(folder, p) ==
    LET tail == IF Len(p) >= 2 /\ SubSeq(p, 1, 2) = "./"
                THEN SubSeq(p, 3, Len(p)) ELSE p
    IN  IF folder = "." THEN tail ELSE folder \o "/" \o tail

\* path.resolve(relativePath)
PathResolve(p) == Cwd \o "/" \o p

\* require.resolve(request, {paths: [folder]}): the file's absolute path, or
\* an error when there is no such file
RequireResolve(request, folder) ==
    LET candidate == PathResolve(PathJoin(folder, request))
    IN  IF candidate \in ExistingFiles THEN Return(candidate)
        ELSE Throw("Cannot find module " \o request)

----------------------------------------------------------------------------
(* convertNodeToUmlClass, one top-level child at a time *)

ImportDirective(path) == [type |-> "ImportDirective", path |-> path]
SourceUnit(children) == [type |-> "SourceUnit", children |-> children]

\* filesystem ? path.resolve(relativePath) : relativePath
AbsolutePath(relativePath, fs) ==
    IF fs THEN PathResolve(relativePath) ELSE relativePath

ResolveImportNoCatch(paths, childNode, relativePath, fs) ==
    LET codeFolder == PathDirname(relativePath)
        importPath == RequireResolve(childNode.path, codeFolder)
    IN  IF fs
        THEN IF importPath.threw THEN importPath
             ELSE Return(Append(paths, importPath.value))
        ELSE Return(Append(paths, PathJoin(codeFolder, childNode.path)))
\* the ImportDirective branch: importedPaths after the directive
ResolveImport(paths, childNode, relativePath, fs) ==
    LET codeFolder == PathDirname(relativePath)
    IN  IF fs
        THEN LET importPath == RequireResolve(childNode.path, codeFolder)
             IN  IF importPath.threw THEN Return(paths)
                 ELSE Return(Append(paths, importPath.value))
        ELSE Return(Append(paths, PathJoin(codeFolder, childNode.path)))

\* the declaration branches: the entity of a ContractDefinition,
\* StructDefinition or EnumDefinition child
ConvertDeclaration(childNode, relativePath, fs) ==
    CASE childNode.type = "ContractDefinition" ->
            parseContractDefinition(
                NewUmlClass(childNode.name, "undefined",
                            AbsolutePath(relativePath, fs), relativePath),
                childNode)
      [] childNode.type = "StructDefinition" ->
            parseStructDefinition(
                NewUmlClass(childNode.name, "Struct",
                            AbsolutePath(relativePath, fs), relativePath),
                childNode)
      [] childNode.type = "EnumDefinition" ->
            parseEnumDefinition(
                NewUmlClass(childNode.name, "Enum",
                            AbsolutePath(relativePath, fs), relativePath),
                childNode)

StampLastOnly(classes, paths) ==
    [i \in DOMAIN classes |->
        IF i = Len(classes) THEN [classes[i] EXCEPT !.importedPaths = paths]
        ELSE classes[i]]
\* umlClasses.forEach((umlClass) => { umlClass.importedPaths = importedPaths })
StampImportedPaths(classes, paths) ==
    [i \in DOMAIN classes |-> [classes[i] EXCEPT !.importedPaths = paths]]

ConcatReplace(all, batch) == batch
\* umlClasses = umlClasses.concat(umlClass)
Concat(all, batch) == all \o batch

----------------------------------------------------------------------------
(* Spec: parseUmlClassesFromFiles over the files.  filesystem = TRUE is    *)
(* fileParser.ts; filesystem = FALSE is the same loop over sources fetched *)
(* from a remote explorer, convertNodeToUmlClass called with its default.  *)

\* contract A is B { C public c; function f(D d) public {}
\*   struct In { B b; uint256 n; }  enum Mode { X, Y }
\*   uint256 private n;  modifier m { C; _; } }
ContractA ==
    ContractDefinition("A", "contract", <<InheritanceSpecifier("B")>>,
        <<StateVarC, FunctionF,
          StructDefinition("In",
            <<Param("b", "B"),
              VariableDeclaration("n", ElementaryTypeName("uint256"), FALSE,
                                  NullString)>>),
          EnumDefinition("Mode", <<EnumValue("X"), EnumValue("Y")>>),
          StateVar("n", ElementaryTypeName("uint256"), "private"),
          ModifierDefinition("m", Null,
            Block(<<ExpressionStatement(Identifier("C")),
                    ExpressionStatement(Identifier("_"))>>))>>)
\* contract F { C public c; C transient t; }: its second variable throws
ContractF ==
    ContractDefinition("F", "contract", <<>>,
        <<StateVarC, StateVar("t", UserDefinedTypeName("C"), "transient")>>)
\* a declaration of a kind the classifier does not know: its header throws
ContractK == ContractDefinition("K", "unknown", <<>>, <<StateVarC>>)
\* struct St { B b; uint256 n; }
TopStruct ==
    StructDefinition("St",
        <<Param("b", "B"),
          VariableDeclaration("n", ElementaryTypeName("uint256"), FALSE,
                              NullString)>>)
TopEnum == EnumDefinition("En", <<EnumValue("X"), EnumValue("Y")>>)

\* the children whose conversion succeeds
SourceChildren ==
    {ContractA, TopStruct, TopEnum,
     ImportDirective("./B.sol"), ImportDirective("./Missing.sol")}
\* the children whose conversion throws
FailingChildren == {ContractF, ContractK}

RECURSIVE ChildSeqs(_)
\* the child lists of exactly n children
ChildSeqs(n) ==
    IF n = 0 THEN {<<>>}
    ELSE {Append(q, x) : q \in ChildSeqs(n - 1), x \in SourceChildren}

\* what parseSolidityFile gives for a file with n children; with none, also a
\* source that does not parse (Null) and a root that is no source unit.  The
\* children after a child that throws are never visited, so such a child is
\* drawn as the last.
FileAsts(n) ==
    {SourceUnit(q) : q \in ChildSeqs(n)}
        \cup (IF n = 0 THEN {Null, TopEnum}
              ELSE {SourceUnit(Append(q, x)) :
                        q \in ChildSeqs(n - 1), x \in FailingChildren})

FilePath(i) ==
    CASE i = 1 -> "contracts/A.sol" [] i = 2 -> "T.sol"
      [] OTHER -> "lib/" \o OrdinalString(i) \o ".sol"

RECURSIVE AstLists(_, _)
\* the ASTs of at most n files with at most budget children in all
AstLists(n, budget) ==
    IF n = 0 THEN {<<>>}
    ELSE {<<>>} \cup
         UNION {{<<a>> \o rest : a \in FileAsts(c),
                                 rest \in AstLists(n - 1, budget - c)} :
                c \in 0..budget}

Init ==
    /\ \E asts \in AstLists(MaxFiles, MaxChildren) :
            files = [i \in DOMAIN asts |->
                        [path |-> FilePath(i), ast |-> asts[i]]]
    /\ filesystem \in BOOLEAN
    /\ fileIdx = 0
    /\ pc = "loop"
    /\ allUmlClasses = <<>>
    /\ childIdx = 0
    /\ umlClasses = <<>>
    /\ importedPaths = <<>>
    /\ FmtIdle /\ ResIdle /\ ConIdle

File == files[fileIdx + 1]
Child == File.ast.children[childIdx + 1]

\* an exception leaves convertNodeToUmlClass and parseUmlClassesFromFiles:
\* the locals of the call are gone
Fail ==
    /\ pc' = "failed"
    /\ childIdx' = 0
    /\ umlClasses' = <<>>
    /\ importedPaths' = <<>>
    /\ UNCHANGED <<files, filesystem, fileIdx, allUmlClasses>>

\* parseSolidityFile(file), then convertNodeToUmlClass up to its forEach
ParseFile ==
    /\ pc = "loop"
    /\ fileIdx < Len(files)
    /\ IF File.ast = Null \/ File.ast.type # "SourceUnit"
       THEN Fail
       ELSE /\ pc' = "convert"
            /\ childIdx' = 0
            /\ umlClasses' = <<>>
            /\ importedPaths' = <<>>
            /\ UNCHANGED <<files, filesystem, fileIdx, allUmlClasses>>
    /\ UNCHANGED <<fmtVars, resVars, conVars>>

\* a ContractDefinition, StructDefinition or EnumDefinition child
DeclarationChild ==
    /\ pc = "convert"
    /\ childIdx < Len(File.ast.children)
    /\ Child.type \in {"ContractDefinition", "StructDefinition",
                       "EnumDefinition"}
    /\ LET umlClass == ConvertDeclaration(Child, File.path, filesystem)
       IN  IF umlClass.threw
           THEN Fail
           ELSE /\ umlClasses' = Append(umlClasses, umlClass.value)
                /\ childIdx' = childIdx + 1
                /\ UNCHANGED <<files, filesystem, fileIdx, pc, allUmlClasses,
                               importedPaths>>
    /\ UNCHANGED <<fmtVars, resVars, conVars>>

\* an ImportDirective child
ImportChild ==
    /\ pc = "convert"
    /\ childIdx < Len(File.ast.children)
    /\ Child.type = "ImportDirective"
    /\ LET paths == ResolveImport(importedPaths, Child, File.path, filesystem)
       IN  IF paths.threw
           THEN Fail
           ELSE /\ importedPaths' = paths.value
                /\ childIdx' = childIdx + 1
                /\ UNCHANGED <<files, filesystem, fileIdx, pc, allUmlClasses,
                               umlClasses>>
    /\ UNCHANGED <<fmtVars, resVars, conVars>>

\* the importedPaths stamp, the return, and the caller's concat
ConvertReturn ==
    /\ pc = "convert"
    /\ childIdx = Len(File.ast.children)
    /\ allUmlClasses' =
            Concat(allUmlClasses, StampImportedPaths(umlClasses, importedPaths))
    /\ fileIdx' = fileIdx + 1
    /\ pc' = "loop"
    /\ childIdx' = 0
    /\ umlClasses' = <<>>
    /\ importedPaths' = <<>>
    /\ UNCHANGED <<files, filesystem, fmtVars, resVars, conVars>>

\* return umlClasses
Done ==
    /\ pc = "loop"
    /\ fileIdx = Len(files)
    /\ pc' = "done"
    /\ UNCHANGED <<files, filesystem, fileIdx, allUmlClasses, childIdx,
                   umlClasses, importedPaths, fmtVars, resVars, conVars>>

Next == ParseFile \/ DeclarationChild \/ ImportChild \/ ConvertReturn \/ Done

Spec == Init /\ [][Next]_vars

----------------------------------------------------------------------------
(* Claims checked under SpecContract                                       *)

Record(umlClass, target) ==
    CHOOSE r \in {umlClass.associations[i] : i \in DOMAIN umlClass.associations} :
        r.targetUmlClassName = target
RecordsOf(umlClass, target) ==
    {i \in DOMAIN umlClass.associations :
        umlClass.associations[i].targetUmlClassName = target}
InContract == cPc \in {"subNodes", "returned"}
SubNodeSet == {cNode.subNodes[i] : i \in DOMAIN cNode.subNodes}

\* C1: once the base contracts of `contract A is B` are recorded, and
\* whatever sub-nodes mentioning B are processed afterwards, the entity
\* holds exactly one association keyed B, with realization = true and
\* referenceType = Storage.
C1_BaseContractRealization ==
    InContract =>
        \A b \in DOMAIN cNode.baseContracts :
            LET target == cNode.baseContracts[b].baseName.namePath
            IN  /\ Cardinality(RecordsOf(cClass, target)) = 1
                /\ Record(cClass, target).realization
                /\ Record(cClass, target).referenceType = Storage

C1_Witness ==
    /\ cPc = "returned"
    /\ cNode.baseContracts = <<InheritanceSpecifier("B")>>
    /\ cNode.subNodes =
            <<FunctionNoBody, StateVar("b", UserDefinedTypeName("B"), "internal")>>
    /\ Record(cClass, "B") = Association(Storage, "B", TRUE)

\* C2 (as claimed): a state variable `mapping(address => S) m` produces
\* exactly one association to S, of referenceType Storage, and none to
\* `address`.
C2_MappingValueIsStorage ==
    (cPc = "returned" /\ StateVarMappingS \in SubNodeSet) =>
        /\ Cardinality(RecordsOf(cClass, "S")) = 1
        /\ Record(cClass, "S").referenceType = Storage
        /\ RecordsOf(cClass, "address") = {}

C4_KindStereotype(kind) ==
    CASE kind = "contract" -> "None"
      [] kind = "interface" -> "Interface"
      [] kind = "library" -> "Library"
      [] kind = "abstract" -> "Abstract"

C4_BodylessSeen ==
    \E j \in 1..cIdx :
        /\ cNode.subNodes[j].type = "FunctionDefinition"
        /\ cNode.subNodes[j].body = Null

\* C4: a contract declared `interface` keeps stereotype Interface; any other
\* contract is Abstract from the first body-less function on, for as long as
\* sub-nodes are processed; without a body-less function the stereotype is
\* the one of the declared kind.
C4_Stereotype ==
    InContract =>
        cClass.stereotype =
            IF cNode.kind = "interface" THEN "Interface"
            ELSE IF C4_BodylessSeen THEN "Abstract"
            ELSE C4_KindStereotype(cNode.kind)

C4_Witness ==
    /\ cPc = "returned"
    /\ cNode.kind = "library"
    /\ cNode.subNodes = <<FunctionNoBody, StateVarC>>
    /\ cClass.stereotype = "Abstract"

C4_WitnessInterface ==
    /\ cPc = "returned"
    /\ cNode.kind = "interface"
    /\ cNode.subNodes = <<FunctionNoBody, FunctionNoBody>>
    /\ cClass.stereotype = "Interface"

C5_Example ==
    ContractDefinition(SelfName, "contract", <<InheritanceSpecifier("B")>>,
                       <<StateVarC, FunctionF>>)

C5_EndToEnd ==
    (cPc = "returned" /\ cNode = C5_Example) =>
        /\ cClass.name = "A"
        /\ {cClass.associations[i] : i \in DOMAIN cClass.associations} =
                {Association(Storage, "B", TRUE),
                 Association(Storage, "C", FALSE),
                 Association(Memory, "D", FALSE)}
        /\ Len(cClass.associations) = 3
        /\ cClass.attributes =
                <<[visibility |-> "Public", name |-> "c", type |-> "C"]>>
        /\ Len(cClass.operators) = 1
        /\ cClass.operators[1].name = "f"
        /\ cClass.operators[1].parameters = <<[name |-> "d", type |-> "D"]>>

\* the declarations of a sub-node that the resolver is handed
C5_Declarations(subNode) ==
    LET items(list) == IF list = Null THEN {}
                       ELSE {list.items[i] : i \in DOMAIN list.items}
        locals(body) ==
            IF body = Null THEN {}
            ELSE UNION {items(st.variables) :
                        st \in {x \in items(body.statements) :
                                x.type = "VariableDeclarationStatement"}}
    IN  CASE subNode.type = "StateVariableDeclaration" ->
                items(subNode.variables)
          [] subNode.type = "FunctionDefinition" ->
                items(subNode.parameters) \cup items(subNode.returnParameters)
                    \cup locals(subNode.body)
          [] subNode.type = "EventDefinition" -> items(subNode.parameters)
          [] subNode.type = "StructDefinition" -> items(subNode.members)
          [] OTHER -> {}

C5_FirstSegment(path) ==
    CASE path = "Lib.Data" -> "Lib" [] OTHER -> path

C5_Step ==
    (cPc = "subNodes" /\ cPc' = "subNodes" /\ cIdx' = cIdx + 1) =>
        LET subNode == cNode.subNodes[cIdx + 1]
        IN  \A d \in C5_Declarations(subNode) :
                (/\ d.typeName.type = "UserDefinedTypeName"
                 /\ C5_FirstSegment(d.typeName.namePath) # SelfName
                 /\ C5_FirstSegment(d.typeName.namePath) \notin Targets(cClass))
                => LET target == C5_FirstSegment(d.typeName.namePath)
                   IN  /\ Cardinality(RecordsOf(cClass', target)) = 1
                       /\ Record(cClass', target).referenceType =
                            IF subNode.type = "StateVariableDeclaration"
                            THEN Storage ELSE Memory

\* C5: a declaration of a user-defined type that is the first discovery of
\* its target records Storage when it is a contract state variable and
\* Memory otherwise (parameter, return parameter, event parameter, local
\* variable, struct member); and `contract A is B { C public c;
\* function f(D d) public {} }` yields the entity A with associations
\* exactly {B: realization+Storage, C: Storage, D: Memory}, one attribute
\* c: C (Public) and one operator f with parameter d: D.
C5_ReferenceTypeOfDeclarations == [][C5_Step]_vars /\ []C5_EndToEnd

C5_Witness ==
    /\ cPc = "returned"
    /\ cNode = C5_Example
    /\ Len(cClass.associations) = 3

C6_OneRecordPerTarget ==
    InContract =>
        Cardinality(Targets(cClass)) = Len(cClass.associations)

C6_KeepsReferenceType ==
    (InContract /\ cPc' \in {"subNodes", "returned"}) =>
        \A t \in Targets(cClass) :
            /\ t \in Targets(cClass')
            /\ Record(cClass', t).referenceType =
                    Record(cClass, t).referenceType

\* C6: the association map holds at most one record per target name, and a
\* record keeps the referenceType of its first discovery: a target recorded
\* Storage is never recorded Memory later.
C6_OneRecordNeverDowngraded ==
    []C6_OneRecordPerTarget /\ [][C6_KeepsReferenceType]_vars

C6_Witness ==
    /\ cPc = "returned"
    /\ Len(cNode.subNodes) = 2
    /\ cNode.subNodes[1] = StateVar("b", UserDefinedTypeName("B"), "internal")
    /\ cNode.subNodes[2].type = "FunctionDefinition"
    /\ cNode.subNodes[2].name = "p"
    /\ Record(cClass, "B").referenceType = Storage

----------------------------------------------------------------------------
(* Claims checked under SpecResolve                                        *)

\* C7: resolving the same node list (addAssociations) or the same expression
\* (parseExpression) twice in succession on one entity leaves the same
\* association map as resolving it once.
C7_Idempotent ==
    rCalls >= 2 => rClass.associations = rFirst.associations

C7_Witness ==
    /\ rCalls = 2
    /\ rNodes # Idle
    /\ Len(rClass.associations) >= 3

C7_WitnessExpression ==
    /\ rCalls = 2
    /\ rExpr # Idle
    /\ Len(rClass.associations) >= 3

----------------------------------------------------------------------------
(* Claims checked under SpecFormat                                         *)

C3_Key(keyType) ==
    IF keyType.type = "ElementaryTypeName" THEN keyType.name
    ELSE keyType.namePath

\* the kinds formatted as claimed: keyword, dotted path, base + `[]`, and the
\* failure of an unknown kind
C3_PlainKinds ==
    CASE typeName.type = "ElementaryTypeName" ->
            formatted = Return(typeName.name)
      [] typeName.type = "UserDefinedTypeName" ->
            formatted = Return(typeName.namePath)
      [] typeName.type = "ArrayTypeName" ->
            LET base == parseTypeName(typeName.baseTypeName)
            IN  IF base.threw THEN formatted.threw
                ELSE formatted = Return(base.value \o "[]")
      [] typeName.type \in {"Mapping", "FunctionTypeName"} -> TRUE
      [] OTHER -> formatted.threw

C3_PlainMapping(key, value) == "mapping(" \o key \o "=>" \o value \o ")"
C3_EscapedMapping(key, value) ==
    "mapping\\(" \o key \o "=\\>" \o value \o "\\)"

\* a mapping whose value type formats: the text made of its key and value,
\* with or without the backslashes
C3_MappingIs(escaped) ==
    typeName.type = "Mapping" =>
        LET key == C3_Key(typeName.keyType)
            value == parseTypeName(typeName.valueType)
        IN  IF value.threw THEN formatted.threw
            ELSE formatted =
                    Return(IF escaped THEN C3_EscapedMapping(key, value.value)
                           ELSE C3_PlainMapping(key, value.value))

C3_Uint256Array == ArrayTypeName(ElementaryTypeName("uint256"))
C3_AddressToUint256 ==
    Mapping(ElementaryTypeName("address"), ElementaryTypeName("uint256"))

\* C3 (as claimed): keyword, dotted path, base + `[]`, exactly
\* `mapping(K=>V)`; every other kind of type node fails.
C3_FormatsAsClaimed ==
    formatted # Idle =>
        /\ C3_PlainKinds
        /\ C3_MappingIs(FALSE)
        /\ typeName.type = "FunctionTypeName" => formatted.threw
        /\ typeName = C3_Uint256Array => formatted = Return("uint256[]")
        /\ typeName = C3_AddressToUint256 =>
                formatted = Return("mapping(address=>uint256)")

\* C3 (amended): keyword, dotted path, base + `[]`; a mapping formats to
\* `mapping\(K=\>V\)`, its parentheses and `>` each preceded by a backslash;
\* a function type formats to the placeholder `FunctionTypeName\(\)`; any
\* other kind of type node, at any nesting depth, fails with an error.
C3_FormatsEscaped ==
    formatted # Idle =>
        /\ C3_PlainKinds
        /\ C3_MappingIs(TRUE)
        /\ typeName.type = "FunctionTypeName" =>
                formatted = Return("FunctionTypeName\\(\\)")
        /\ typeName = C3_Uint256Array => formatted = Return("uint256[]")
        /\ typeName = C3_AddressToUint256 =>
                formatted = Return("mapping\\(address=\\>uint256\\)")

C3_Witness ==
    /\ typeName = C3_AddressToUint256
    /\ formatted = Return("mapping\\(address=\\>uint256\\)")

----------------------------------------------------------------------------
(* Claims checked under Spec                                               *)

IsDeclaration(node) ==
    node.type \in {"ContractDefinition", "StructDefinition", "EnumDefinition"}
IsImport(node) == node.type = "ImportDirective"

\* name and file of every entity of a list, in order
Labels(classes) ==
    [i \in DOMAIN classes |->
        <<classes[i].name, classes[i].relativePath>>]

\* name and file of the declarations among the first n children of a file
DeclaredLabels(file, n) ==
    LET decls == SelectSeq(SubSeq(file.ast.children, 1, n), IsDeclaration)
    IN  [i \in DOMAIN decls |-> <<decls[i].name, file.path>>]

RECURSIVE LabelsOfFiles(_)
\* the declarations of the first n files, file by file
LabelsOfFiles(n) ==
    IF n = 0 THEN <<>>
    ELSE LabelsOfFiles(n - 1)
            \o DeclaredLabels(files[n], Len(files[n].ast.children))

InPipeline == pc \in {"loop", "convert", "done", "failed"}

C8_AggregateOfPrefix ==
    InPipeline =>
        /\ Labels(allUmlClasses) = LabelsOfFiles(fileIdx)
        /\ \A i \in DOMAIN allUmlClasses :
                allUmlClasses[i].stereotype # "undefined"
        /\ pc = "failed" =>
                \A i \in DOMAIN allUmlClasses :
                    allUmlClasses[i].relativePath # File.path

C8_AppendOnly ==
    /\ Len(allUmlClasses') >= Len(allUmlClasses)
    /\ SubSeq(allUmlClasses', 1, Len(allUmlClasses)) = allUmlClasses
    /\ pc' = "failed" => allUmlClasses' = allUmlClasses

\* C8: the aggregate always holds exactly the entities of the declarations
\* of the files converted so far, in file order, each entity complete (its
\* stereotype set); after a failure on file k it holds no entity of file k;
\* and a step only ever appends to it, a failing step not at all.
C8_FailureIsolation == []C8_AggregateOfPrefix /\ [][C8_AppendOnly]_vars

\* file 2 fails on its second contract after its first was built
C8_Witness ==
    /\ pc = "failed"
    /\ fileIdx = 1
    /\ Len(allUmlClasses) = 1
    /\ Len(files) = 2
    /\ files[2].ast = SourceUnit(<<ContractA, ContractF>>)

C9_Folder(path) ==
    CASE path = "contracts/A.sol" -> "contracts/"
      [] path = "T.sol" -> ""
      [] OTHER -> "lib/"

C9_Name(importPath) ==
    CASE importPath = "./B.sol" -> "B.sol"
      [] importPath = "./Missing.sol" -> "Missing.sol"

C9_OnDisk(file, directive) ==
    file.path = "contracts/A.sol" /\ directive.path = "./B.sol"

C9_Expected(file, n, fs) ==
    LET imports == SelectSeq(SubSeq(file.ast.children, 1, n), IsImport)
        resolved == SelectSeq(imports, LAMBDA d : C9_OnDisk(file, d))
    IN  IF fs
        THEN [i \in DOMAIN resolved |-> "/cwd/contracts/B.sol"]
        ELSE [i \in DOMAIN imports |->
                C9_Folder(file.path) \o C9_Name(imports[i].path)]

C9_Converting ==
    pc = "convert" =>
        /\ importedPaths = C9_Expected(File, childIdx, filesystem)
        /\ Labels(umlClasses) = DeclaredLabels(File, childIdx)

C9_ImportStep ==
    (pc = "convert" /\ childIdx < Len(File.ast.children) /\ IsImport(Child))
        => /\ pc' = "convert"
           /\ childIdx' = childIdx + 1
           /\ umlClasses' = umlClasses

\* C9: an import directive never interrupts extraction: the step over it
\* stays in the conversion and leaves the entities alone; with filesystem
\* resolution the directives resolved so far are those whose file exists,
\* in source order, the others omitted; with remote-relative resolution
\* every directive contributes the join of the file's folder and its path;
\* and every declaration before and after it still has its entity.
C9_ImportsNeverInterrupt == []C9_Converting /\ [][C9_ImportStep]_vars

\* an unresolved import between two declarations, both extracted
C9_Witness ==
    /\ pc = "convert"
    /\ filesystem
    /\ File.ast.children = <<TopStruct, ImportDirective("./Missing.sol"),
                             TopEnum>>
    /\ childIdx = 3
    /\ importedPaths = <<>>
    /\ Len(umlClasses) = 2

C9_WitnessRemote ==
    /\ pc = "convert"
    /\ ~filesystem
    /\ File.path = "contracts/A.sol"
    /\ File.ast.children = <<ImportDirective("./Missing.sol"), TopStruct>>
    /\ childIdx = 2
    /\ importedPaths = <<"contracts/Missing.sol">>

\* C10: every entity returned for a file carries the resolved targets of
\* all the import directives of that file, in source order, also of those
\* after its own declaration; until the return, no entity under
\* construction has any importedPaths.
C10_Stamped ==
    InPipeline =>
        /\ \A i \in DOMAIN allUmlClasses :
                \E j \in 1..fileIdx :
                    /\ files[j].path = allUmlClasses[i].relativePath
                    /\ allUmlClasses[i].importedPaths =
                            C9_Expected(files[j], Len(files[j].ast.children),
                                        filesystem)
        /\ \A i \in DOMAIN umlClasses : umlClasses[i].importedPaths = <<>>

C10_Witness ==
    /\ pc = "loop"
    /\ fileIdx = 1
    /\ filesystem
    /\ files[1].ast = SourceUnit(<<ContractA, ImportDirective("./B.sol"),
                                   TopStruct>>)
    /\ allUmlClasses[1].importedPaths = <<"/cwd/contracts/B.sol">>
    /\ allUmlClasses[2].importedPaths = <<"/cwd/contracts/B.sol">>

C11_VisibilityKeywords == {"default", "public", "external", "internal", "private"}
C11_KindKeywords == {"contract", "interface", "library", "abstract"}
\* keywords of other grammars, a missing keyword, a keyword in another case
C11_OtherKeywords ==
    {"transient", "unknown", "struct", "Public", "constant", "", NullString}

C11_Classifiers ==
    /\ parseVisibility("default") = Return("Public")
    /\ parseVisibility("public") = Return("Public")
    /\ parseVisibility("external") = Return("External")
    /\ parseVisibility("internal") = Return("Internal")
    /\ parseVisibility("private") = Return("Private")
    /\ parseContractKind("contract") = Return("None")
    /\ parseContractKind("interface") = Return("Interface")
    /\ parseContractKind("library") = Return("Library")
    /\ parseContractKind("abstract") = Return("Abstract")
    /\ \A k \in C11_OtherKeywords \cup C11_KindKeywords :
            parseVisibility(k).threw
    /\ \A k \in C11_OtherKeywords \cup C11_VisibilityKeywords :
            parseContractKind(k).threw

\* the contract hands a keyword outside the closed sets to a classifier: its
\* kind, the visibility of a state variable or of a named function
C11_BadKeyword(node) ==
    /\ node.type = "ContractDefinition"
    /\ \/ node.kind \notin C11_KindKeywords
       \/ \E i \in DOMAIN node.subNodes :
            LET subNode == node.subNodes[i]
            IN  \/ /\ subNode.type = "StateVariableDeclaration"
                   /\ \E j \in DOMAIN subNode.variables.items :
                        subNode.variables.items[j].visibility
                            \notin C11_VisibilityKeywords
                \/ /\ subNode.type = "FunctionDefinition"
                   /\ ~subNode.isConstructor
                   /\ subNode.name # ""
                   /\ subNode.visibility \notin C11_VisibilityKeywords

C11_NeverReturned ==
    /\ pc = "failed" => umlClasses = <<>>
    /\ pc \in {"loop", "done"} =>
            \A f \in 1..fileIdx : \A i \in DOMAIN files[f].ast.children :
                ~C11_BadKeyword(files[f].ast.children[i])
    /\ pc = "convert" =>
            \A i \in 1..childIdx : ~C11_BadKeyword(File.ast.children[i])

C11_Abort ==
    (/\ pc = "convert"
     /\ childIdx < Len(File.ast.children)
     /\ C11_BadKeyword(Child))
        => /\ pc' = "failed"
           /\ umlClasses' = <<>>
           /\ allUmlClasses' = allUmlClasses

\* C11: the two classifiers map their closed keyword sets as tabulated and
\* fail on every other keyword; the step that converts a contract handing
\* such a keyword to a classifier ends the conversion of the file with no
\* entity list, the entities built before it included, and no conversion
\* that returned has met such a contract.
C11_ClassifierFailureAborts ==
    [](C11_Classifiers /\ C11_NeverReturned) /\ [][C11_Abort]_vars

\* an unknown contract kind after a contract that was built
C11_Witness ==
    /\ pc = "failed"
    /\ fileIdx = 1
    /\ files[2].ast = SourceUnit(<<ContractA, ContractK>>)
    /\ Len(allUmlClasses) = 1
    /\ umlClasses = <<>>

\* an unknown visibility keyword on the second state variable
C11_WitnessVisibility ==
    /\ pc = "failed"
    /\ fileIdx = 0
    /\ files[1].ast = SourceUnit(<<TopEnum, ContractF>>)
    /\ allUmlClasses = <<>>

C12_Names(items) == [i \in DOMAIN items |-> items[i].name]

RECURSIVE C12_Flatten(_)
C12_Flatten(seqs) ==
    IF seqs = <<>> THEN <<>> ELSE Head(seqs) \o C12_Flatten(Tail(seqs))

C12_IsStateVariable(node) == node.type = "StateVariableDeclaration"
C12_IsOperator(node) ==
    node.type \in {"FunctionDefinition", "ModifierDefinition",
                   "EventDefinition"}

\* the names of the state variables of a contract, in declaration order
C12_AttributeNames(contract) ==
    LET decls == SelectSeq(contract.subNodes, C12_IsStateVariable)
    IN  C12_Flatten([i \in DOMAIN decls |->
                        C12_Names(decls[i].variables.items)])

\* the names of its functions, modifiers and events, in declaration order
C12_OperatorNames(contract) ==
    LET decls == SelectSeq(contract.subNodes, C12_IsOperator)
    IN  [i \in DOMAIN decls |->
            IF decls[i].type = "FunctionDefinition" /\ decls[i].isConstructor
            THEN "constructor" ELSE decls[i].name]

\* its nested declarations of one type
C12_Nested(contract, type) ==
    {contract.subNodes[i] :
        i \in {j \in DOMAIN contract.subNodes :
                    contract.subNodes[j].type = type}}

\* the entity is the entity of the top-level declaration
C12_EntityOf(umlClass, node) ==
    /\ umlClass.name = node.name
    /\ CASE node.type = "ContractDefinition" ->
                /\ C12_Names(umlClass.attributes) = C12_AttributeNames(node)
                /\ C12_Names(umlClass.operators) = C12_OperatorNames(node)
                /\ DOMAIN umlClass.structs =
                        {n.name : n \in C12_Nested(node, "StructDefinition")}
                /\ DOMAIN umlClass.enums =
                        {n.name : n \in C12_Nested(node, "EnumDefinition")}
                /\ \A n \in C12_Nested(node, "StructDefinition") :
                        C12_Names(umlClass.structs[n.name])
                            = C12_Names(n.members.items)
                /\ \A n \in C12_Nested(node, "EnumDefinition") :
                        umlClass.enums[n.name] = C12_Names(n.members.items)
         [] node.type = "StructDefinition" ->
                /\ umlClass.stereotype = "Struct"
                /\ C12_Names(umlClass.attributes)
                        = C12_Names(node.members.items)
                /\ umlClass.operators = <<>>
                /\ umlClass.structs = <<>> /\ umlClass.enums = <<>>
         [] node.type = "EnumDefinition" ->
                /\ umlClass.stereotype = "Enum"
                /\ C12_Names(umlClass.attributes)
                        = C12_Names(node.members.items)
                /\ umlClass.operators = <<>>
                /\ umlClass.structs = <<>> /\ umlClass.enums = <<>>

\* the top-level declarations among the first n children of a file
C12_Declarations(file, n) ==
    SelectSeq(SubSeq(file.ast.children, 1, n), IsDeclaration)

RECURSIVE C12_DeclarationsOfFiles(_)
C12_DeclarationsOfFiles(n) ==
    IF n = 0 THEN <<>>
    ELSE C12_DeclarationsOfFiles(n - 1)
            \o C12_Declarations(files[n], Len(files[n].ast.children))

C12_OnePerDeclaration(classes, decls) ==
    /\ Len(classes) = Len(decls)
    /\ \A i \in DOMAIN classes : C12_EntityOf(classes[i], decls[i])

\* C12: the entities built for a file, and those returned for the files
\* converted so far, are one per top-level contract, struct or enum child,
\* in source order; a contract's nested structs and enums are no entities
\* but the entries, keyed by name, of its structs and enums maps, members in
\* declaration order; attributes and operators are in declaration order.
C12_EntitiesInSourceOrder ==
    InPipeline =>
        /\ C12_OnePerDeclaration(allUmlClasses,
                                 C12_DeclarationsOfFiles(fileIdx))
        /\ pc = "convert" =>
                C12_OnePerDeclaration(umlClasses,
                                      C12_Declarations(File, childIdx))

\* a contract with a nested struct and enum between a struct and an enum
C12_Witness ==
    /\ pc = "loop"
    /\ fileIdx = 1
    /\ files[1].ast = SourceUnit(<<TopStruct, ContractA, TopEnum>>)
    /\ Len(allUmlClasses) = 3
    /\ C12_Names(allUmlClasses[2].attributes) = <<"c", "n">>
    /\ C12_Names(allUmlClasses[2].operators) = <<"f", "m">>
    /\ C12_Names(allUmlClasses[2].structs["In"]) = <<"b", "n">>
    /\ allUmlClasses[2].enums["Mode"] = <<"X", "Y">>
    /\ C12_Names(allUmlClasses[1].attributes) = <<"b", "n">>

----------------------------------------------------------------------------
(* Claims checked under SpecResolve                                        *)

\* the statements of the scanned list that the scan reaches
C13_Scanned ==
    IF rNodes = Idle \/ rNodes = Null \/ rCalls = 0 THEN {}
    ELSE {rNodes.items[i] :
            i \in {j \in DOMAIN rNodes.items :
                        \A k \in 1..j : rNodes.items[k] # Null}}

\* the identifier is recorded, as a Memory reference
C13_Recorded(expression) ==
    (expression # Null /\ expression.type = "Identifier"
        /\ expression.name # SelfName)
        => /\ expression.name \in Targets(rClass)
           /\ Record(rClass, expression.name).referenceType = Memory

\* the governing expressions of for and do-while statements are walked: an
\* identifier that is the loop condition or the loop increment has its
\* association
C13_ForAndDoWhileWalked ==
    \A node \in C13_Scanned :
        /\ node.type = "ForStatement" =>
                /\ C13_Recorded(node.conditionExpression)
                /\ C13_Recorded(node.loopExpression.expression)
        /\ node.type = "DoWhileStatement" => C13_Recorded(node.condition)

\* C13 (as claimed): for every for, while and do-while statement the scan
\* reaches, an identifier that is the statement's loop condition (or the
\* for statement's loop increment) has a Memory association to its name.
C13_GoverningExpressionsWalked ==
    /\ C13_ForAndDoWhileWalked
    /\ \A node \in C13_Scanned :
            node.type = "WhileStatement" => C13_Recorded(node.condition)

\* while (C) { return; } was scanned and C is not recorded
C13_WhileConditionSkipped ==
    /\ rCalls = 1
    /\ rNodes = Array(<<WhileStatement(Identifier("C"),
                                       Block(<<ReturnStatement(Null)>>))>>)
    /\ rClass.associations = <<>>

RECURSIVE C14_References(_)
\* the names referenced from an expression: its identifiers, the callee and
\* arguments of its calls, the user-defined types it constructs
C14_References(e) ==
    CASE e = Null -> {}
      [] e.type = "Identifier" -> {e.name}
      [] e.type = "NewExpression" ->
            IF e.typeName.type = "UserDefinedTypeName"
            THEN {parseClassName(e.typeName.namePath)} ELSE {}
      [] e.type = "FunctionCall" ->
            C14_References(e.expression)
                \cup UNION {C14_References(e.arguments[i]) :
                                i \in DOMAIN e.arguments}
      [] e.type = "BinaryOperation" ->
            C14_References(e.left) \cup C14_References(e.right)
      [] e.type = "IndexAccess" ->
            C14_References(e.base) \cup C14_References(e.index)
      [] e.type = "TupleExpression" ->
            UNION {C14_References(e.components[i]) :
                        i \in DOMAIN e.components}
      [] e.type = "MemberAccess" -> C14_References(e.expression)
      [] e.type = "UnaryOperation" -> C14_References(e.subExpression)
      [] e.type = "Conditional" ->
            C14_References(e.trueExpression)
                \cup C14_References(e.falseExpression)
      [] OTHER -> {}

C14_IsTernary ==
    rExpr # Idle /\ rExpr # Null /\ rExpr.type = "Conditional"

\* once resolved, every reference of the two branches has its association
C14_BranchesRecorded ==
    (C14_IsTernary /\ rCalls >= 1) =>
        (C14_References(rExpr.trueExpression)
            \cup C14_References(rExpr.falseExpression)) \ {SelfName}
                \subseteq Targets(rClass)

\* resolving it records nothing but references of the two branches: the
\* condition is not walked
C14_ConditionNotWalked ==
    C14_IsTernary =>
        Targets(rClass') \ Targets(rClass)
            \subseteq C14_References(rExpr.trueExpression)
                        \cup C14_References(rExpr.falseExpression)

C14_ConditionSkipped == [][C14_ConditionNotWalked]_vars

\* C14 (as claimed): resolving a ternary records an association for every
\* reference reachable from its true branch and its false branch, and none
\* for the condition.
C14_TernaryBranchesWalked ==
    []C14_BranchesRecorded /\ [][C14_ConditionNotWalked]_vars

\* C ? B : 0 was resolved and neither B nor C is recorded
C14_BranchIgnored ==
    /\ rCalls = 1
    /\ rExpr = Conditional(Identifier("C"), Identifier("B"), NumberLiteral)
    /\ rClass.associations = <<>>

\* the slots of a list before its first null slot
C15_Prefix(items) ==
    LET nulls == {i \in DOMAIN items : items[i] = Null}
    IN  IF nulls = {} THEN items
        ELSE SubSeq(items, 1,
                    (CHOOSE i \in nulls : \A j \in nulls : i <= j) - 1)

RECURSIVE C15_Cut(_)
\* the node with every node list under it cut at its first null slot, the
\* rest of the node as it is
C15_Cut(node) ==
    LET CutList(list) ==
            LET prefix == C15_Prefix(list.items)
            IN  Array([i \in DOMAIN prefix |-> C15_Cut(prefix[i])])
    IN  CASE node = Null -> Null
          [] node.type \in {"VariableDeclarationStatement",
                            "StateVariableDeclaration"} ->
                [node EXCEPT !.variables = CutList(@)]
          [] node.type = "Block" -> [node EXCEPT !.statements = CutList(@)]
          [] node.type \in {"ForStatement", "WhileStatement",
                            "DoWhileStatement"} ->
                [node EXCEPT !.body = C15_Cut(@)]
          [] node.type = "IfStatement" ->
                [node EXCEPT !.trueBody = C15_Cut(@),
                             !.falseBody = C15_Cut(@)]
          [] OTHER -> node

C15_NoNullSlot(list) == \A i \in DOMAIN list.items : list.items[i] # Null

\* a scan of a list records what the scan of the list cut at its null slots
\* records: what stands before a null slot, in every list, and what the
\* callers walk after the list
C15_ScanIsScanOfCut ==
    (rNodes # Idle /\ rNodes # Null) =>
        LET prefix == C15_Prefix(rNodes.items)
            cut == Array([i \in DOMAIN prefix |-> C15_Cut(prefix[i])])
        IN  /\ C15_NoNullSlot(cut)
            /\ rClass' = addAssociations(cut, rClass)

\* var (D x, , Lib.Data z) = C; followed by a statement that mentions B:
\* D, C and B are recorded, and Lib only if it was before
C15_Destructuring ==
    (/\ rNodes # Idle /\ rNodes # Null
     /\ Len(rNodes.items) = 2
     /\ rNodes.items[1] = DestructuringStatement
     /\ rNodes.items[2] = ExpressionStatement(Identifier("B")))
        => /\ {"D", "C", "B"} \subseteq Targets(rClass')
           /\ Targets(rClass') \ Targets(rClass) \subseteq {"D", "C", "B"}

\* C15: a null slot ends the scan of its own list and of nothing else: the
\* nodes before it are recorded, the null slot and the nodes after it in
\* that list are not, and the initializer of the enclosing declaration
\* statement and the statements after it are walked.
C15_NullSlotStopsOneList ==
    [][C15_ScanIsScanOfCut /\ C15_Destructuring]_vars

\* the scan of the destructuring statement and its successor recorded D, C
\* and B and not Lib
C15_Witness ==
    /\ rCalls = 1
    /\ rNodes = Array(<<DestructuringStatement,
                        ExpressionStatement(Identifier("B"))>>)
    /\ Targets(rClass) = {"D", "C", "B"}

----------------------------------------------------------------------------
(* Further claims checked under SpecContract                               *)

C16_HasDot(name) == \E i \in 1..Len(name) : SubSeq(name, i, i) = "."

\* the sub-nodes processed so far
C16_Processed == {cNode.subNodes[i] : i \in 1..cIdx}

\* Lib.Data d: the association is keyed Lib and the attribute's type string
\* is the full path
C16_DeclaredTypeFirstSegment ==
    (InContract /\ StateVar("d", UserDefinedTypeName("Lib.Data"), "default")
                        \in C16_Processed) =>
        /\ "Lib" \in Targets(cClass)
        /\ \E i \in DOMAIN cClass.attributes :
                cClass.attributes[i].name = "d"
                    /\ cClass.attributes[i].type = "Lib.Data"

\* C16 (as claimed): no association key contains a dot; the type Lib.Data
\* is recorded under the key Lib, be it a declaration's own type, the value
\* type of a mapping or the type a `new` expression constructs; and the
\* attribute's type string keeps the full dotted path.
C16_FirstDotSegment ==
    InContract =>
        /\ \A i \in DOMAIN cClass.associations :
                ~C16_HasDot(cClass.associations[i].targetUmlClassName)
        /\ C16_DeclaredTypeFirstSegment
        /\ (StateVarMappingLibData \in C16_Processed
                \/ FunctionNew \in C16_Processed) => "Lib" \in Targets(cClass)

\* mapping(address => Lib.Data) ld; is recorded under the key Lib.Data
C16_DottedKey ==
    /\ cPc = "returned"
    /\ cNode.subNodes = <<StateVarMappingLibData>>
    /\ cNode.baseContracts = <<>>
    /\ cClass.associations = <<Association(Memory, "Lib.Data", FALSE)>>

\* so is new Lib.Data()
C16_DottedKeyNew ==
    /\ cPc = "returned"
    /\ cNode.subNodes = <<FunctionNew>>
    /\ cNode.baseContracts = <<>>
    /\ cClass.associations = <<Association(Memory, "Lib.Data", FALSE)>>

\* the operator is the one the function definition is classified as
C17_Classified(operator, subNode) ==
    IF subNode.isConstructor
    THEN /\ operator.name = "constructor"
         /\ operator.stereotype = "None"
         /\ "visibility" \notin DOMAIN operator
    ELSE IF subNode.name = ""
    THEN /\ operator.name = ""
         /\ operator.stereotype = "Fallback"
         /\ operator.isPayable = (subNode.stateMutability = "payable")
    ELSE /\ operator.name = subNode.name
         /\ operator.stereotype =
                CASE subNode.body = Null -> "Abstract"
                  [] subNode.stateMutability = "payable" -> "Payable"
                  [] OTHER -> "None"

C17_FunctionStep ==
    (/\ cPc = "subNodes" /\ cPc' = "subNodes" /\ cIdx' = cIdx + 1
     /\ cNode.subNodes[cIdx + 1].type = "FunctionDefinition")
        => LET subNode == cNode.subNodes[cIdx + 1]
           IN  /\ Len(cClass'.operators) = Len(cClass.operators) + 1
               /\ SubSeq(cClass'.operators, 1, Len(cClass.operators))
                    = cClass.operators
               /\ C17_Classified(cClass'.operators[Len(cClass'.operators)],
                                 subNode)
               /\ (subNode.body = Null /\ cClass.stereotype = "Interface")
                    => cClass'.stereotype = "Interface"

\* C17: the step over a function definition appends exactly one operator
\* and leaves the others alone; the operator is `constructor`, None and
\* without visibility for a constructor; Fallback, with isPayable true
\* exactly for the state mutability payable, for an empty name; otherwise
\* Abstract without a body, also when payable and also in an interface,
\* whose entity stays Interface; Payable with a body and the state
\* mutability payable; None otherwise.
C17_FunctionClassification == [][C17_FunctionStep]_vars

\* function q() internal payable; in an interface: the operator is Abstract
\* and the entity is still Interface
C17_Witness ==
    /\ cPc = "returned"
    /\ cNode.kind = "interface"
    /\ Len(cNode.subNodes) = 2
    /\ cNode.subNodes[1].type = "FunctionDefinition"
    /\ cNode.subNodes[1].isConstructor
    /\ cNode.subNodes[2].type = "FunctionDefinition"
    /\ cNode.subNodes[2].name = "q"
    /\ cNode.subNodes[2].stateMutability = "payable"
    /\ cNode.subNodes[2].body = Null
    /\ Len(cClass.operators) = 2
    /\ cClass.operators[1].name = "constructor"
    /\ cClass.operators[2].stereotype = "Abstract"
    /\ cClass.stereotype = "Interface"

\* a payable fallback and a payable function with a body
C17_WitnessPayable ==
    /\ cPc = "returned"
    /\ Len(cClass.operators) = 2
    /\ cClass.operators[1].stereotype = "Fallback"
    /\ cClass.operators[1].isPayable
    /\ cClass.operators[2].stereotype = "Payable"

====
